---- MODULE Spec2Model ----
(***************************************************************************)
(* ClassBalanceModel (metal/label_model/class_balance.py): the three-way   *)
(* overlaps tensor, the validity mask, the masked least-squares loss and   *)
(* train_model's decoding of the fitted factor tensor Q.                   *)
(*                                                                         *)
(* Numbers.  Every real the program computes is kept exact:                *)
(*   - an overlaps tensor is [shape, den, num]: entry = num[idx] / den;    *)
(*   - Q[i][v][y] is the integer numerator of Q[i,v,y] = Q[i][v][y]/QDen;  *)
(*   - p_y[y] is the numerator of p_y[y] = p_y[y] / (m * QDen^3);          *)
(*   - cps[i][v][y] is the pair [num, rad] standing for                    *)
(*         (num / QDen) / cuberoot(rad / (m * QDen^3)),                    *)
(*     so that sums and comparisons of cps entries are decided by cubing.  *)
(* float32 rounding is not modelled.                                       *)
(***************************************************************************)
EXTENDS Integers, Sequences, FiniteSets, TLC

VARIABLES
    k,              \* self.k
    abstains,       \* self.abstains
    class_balance,  \* self.class_balance (None until a fit stores it)
    cond_probs,     \* self.cond_probs    (None until a fit stores it)
    m,              \* self.m    (0: the attribute does not exist yet)
    mask,           \* self.mask (None: the attribute does not exist yet)
    Q,              \* self.Q    (None: the attribute does not exist yet)
    p_y,            \* train_model's local p_y of the last call that reached line 115
    cps,            \* train_model's local cps of that call
    orderings,      \* cps_na.argmax(axis=2) of that call (line 136)
    col_order,      \* train_model's local col_order of that call
    outcome,        \* how the last train_model call ended: "ok", "ValueError",
                    \* "IndexError"; "none" before the first call
    args,           \* the arguments of a direct call of one of the pure methods
    ret             \* what that call returned (None before it returns)

vars == <<k, abstains, class_balance, cond_probs, m, mask, Q,
          p_y, cps, orderings, col_order, outcome, args, ret>>

None == <<>>

\* ------------------------------------------------------------------ bounds
MaxN == 2       \* a label matrix has 1..MaxN examples
MaxM == 4       \* get_mask is called with m in 3..MaxM
QDen == 4       \* Q entries are multiples of 1/QDen

Ks == {2}             \* cardinalities k of the instances the methods are called on
TrainKs == {2, 4}     \* cardinalities k of the instances train_model is called on
Ms == {3}             \* numbers of sources m of the inputs
QVals == {1, 2}       \* numerators of the Q entries the optimizer ends at

\* ------------------------------------------------------------- __init__
k_0 == IF abstains THEN 0 ELSE 1
k_lf == IF abstains THEN k + 1 ELSE k

\* ------------------------------------------------------------- helpers
Range(n) == 0 .. (n - 1)

RECURSIVE SumTo(_, _)
\* f[0] + ... + f[n-1]
SumTo(f, n) == IF n = 0 THEN 0 ELSE f[n - 1] + SumTo(f, n - 1)

\* f itself, as a table of its values: a function expression is otherwise
\* evaluated anew at every application
Table(f) == f @@ f

\* a 6-axis array of shape (ms, ms, ms, kv, kv, kv) with entry F(i,j,l,a,b,c)
Tensor6(ms, kv, F(_, _, _, _, _, _)) ==
    [i \in Range(ms) |-> [j \in Range(ms) |-> [l \in Range(ms) |->
        [a \in Range(kv) |-> [b \in Range(kv) |-> [c \in Range(kv) |->
            F(i, j, l, a, b, c)]]]]]]

\* the sum of F(i,j,l,a,b,c) over a whole (ms, ms, ms, kv, kv, kv) index range
Sum6(ms, kv, F(_, _, _, _, _, _)) ==
    SumTo([i \in Range(ms) |-> SumTo([j \in Range(ms) |-> SumTo([l \in Range(ms) |->
        SumTo([a \in Range(kv) |-> SumTo([b \in Range(kv) |-> SumTo([c \in Range(kv) |->
            F(i, j, l, a, b, c)], kv)], kv)], kv)], ms)], ms)], ms)

\* L.shape of a label matrix L[x][s]
NumRows(L) == Cardinality(DOMAIN L)
NumCols(L) == Cardinality(DOMAIN L[0])

\* -------------------------------------------------- _get_overlaps_tensor
\* the number of values of range(self.k_0, self.k), the last value dropped
NumValuesShort == k - k_0

\* line 56: the number of values y of range(self.k_0, self.k + 1)
NumValues == k + 1 - k_0

\* line 56: LY[a, b, c] = np.where(L == y, 1, 0)[b, c] for the a-th value y
LY(L, a, b, c) == IF L[b][c] = k_0 + a THEN 1 ELSE 0

\* np.einsum("abc,dbe,fbg->cegadf", LY, LY, LY) with the output's value axes
\* a and d exchanged ("->cegdaf")
EinsumOverlapsSwapped(L, n, c, e, g, d, a, f) ==
    SumTo([b \in Range(n) |-> LY(L, a, b, c) * LY(L, d, b, e) * LY(L, f, b, g)], n)

\* line 59: np.einsum("abc,dbe,fbg->cegadf", LY, LY, LY)[c, e, g, a, d, f],
\* the sum over the shared axis b of LY[a,b,c] * LY[d,b,e] * LY[f,b,g]
EinsumOverlaps(L, n, c, e, g, a, d, f) ==
    SumTo([b \in Range(n) |-> LY(L, a, b, c) * LY(L, d, b, e) * LY(L, f, b, g)], n)

\* lines 53-60; the division by n is the tensor's denominator
_get_overlaps_tensor(L) ==
    LET n  == NumRows(L)
        ms == NumCols(L)
    IN  [shape |-> <<ms, ms, ms, NumValues, NumValues, NumValues>>,
         den   |-> n,
         num   |-> Tensor6(ms, NumValues, LAMBDA i, j, l, a, b, c :
                      EinsumOverlaps(L, n, i, j, l, a, b, c))]

\* ------------------------------------------------------------- get_mask
\* the test of line 67 with the bound off by one: only i = j = k is masked
RepeatedIndexAllEqual(i, j, l) == Cardinality({i, j, l}) < 2

\* line 67: len(set((i, j, k))) < 3
RepeatedIndex(i, j, l) == Cardinality({i, j, l}) < 3

\* a (kv, kv, kv) block with every entry x: what [i, j, k, :, :, :] holds
Block(kv, x) == [a \in Range(kv) |-> [b \in Range(kv) |-> [c \in Range(kv) |-> x]]]

\* lines 65-69: torch.ones(shape).byte(), then mask[i, j, k, :, :, :] = 0 for
\* every (i, j, k) line 67 selects
get_mask(ms) ==
    [shape |-> <<ms, ms, ms, k_lf, k_lf, k_lf>>,
     at    |-> [i \in Range(ms) |-> [j \in Range(ms) |-> [l \in Range(ms) |->
                  IF RepeatedIndex(i, j, l) THEN Block(k_lf, 0) ELSE Block(k_lf, 1)]]]]

\* ------------------------------------------------------------- get_loss
\* torch.einsum("aby,cdy,efy->acebdf", [Q, Q, Q]) with the output's value
\* axes b and d exchanged ("->acedbf")
EinsumFactorsSwapped(Qt, a, c, e, d, b, f) ==
    LET kk == Cardinality(DOMAIN Qt[0][0])
    IN  SumTo([y \in Range(kk) |-> Qt[a][b][y] * Qt[c][d][y] * Qt[e][f][y]], kk)

\* line 75: torch.einsum("aby,cdy,efy->acebdf", [Q, Q, Q])[a, c, e, b, d, f],
\* the sum over y of Q[a,b,y] * Q[c,d,y] * Q[e,f,y]; the value is over QDen^3
EinsumFactors(Qt, a, c, e, b, d, f) ==
    LET kk == Cardinality(DOMAIN Qt[0][0])
    IN  SumTo([y \in Range(kk) |-> Qt[a][b][y] * Qt[c][d][y] * Qt[e][f][y]], kk)

\* a boolean-mask selection that keeps every entry, whatever the mask
SelectedAll(mk, i, j, l, a, b, c) == TRUE

\* line 75: X[mask] keeps the entry at [i,j,l,a,b,c] iff the mask is nonzero there
Selected(mk, i, j, l, a, b, c) == mk.at[i][j][l][a][b][c] # 0

\* the numerator of (O - einsum)[i,j,l,a,b,c], over O.den * QDen^3
Diff(Ot, Qt, i, j, l, a, b, c) ==
    Ot.num[i][j][l][a][b][c] * (QDen * QDen * QDen)
        - EinsumFactors(Qt, i, j, l, a, b, c) * Ot.den

\* lines 75-76: torch.norm((O - einsum)[mask]) ** 2, the sum of the squared
\* selected differences
get_loss(Ot, Qt, mk) ==
    [num |-> Sum6(mk.shape[1], mk.shape[4], LAMBDA i, j, l, a, b, c :
                IF Selected(mk, i, j, l, a, b, c)
                THEN Diff(Ot, Qt, i, j, l, a, b, c) * Diff(Ot, Qt, i, j, l, a, b, c)
                ELSE 0),
     den |-> (Ot.den * QDen * QDen * QDen) * (Ot.den * QDen * QDen * QDen)]

\* --------------------------------------------------------------- inputs
\* a row of a label matrix read as a number in base k + 1
RECURSIVE RowCode(_, _)
RowCode(row, ms) ==
    IF ms = 0 THEN 0 ELSE row[ms - 1] + (k + 1) * RowCode(row, ms - 1)

\* the n x m label matrices with entries in {k_0..k}, one for each multiset
\* of rows (the examples in nondecreasing order): every method sums over the
\* examples, so the order of the rows is immaterial
LabelMatrices(rows, ms) ==
    {L \in [Range(rows) -> [Range(ms) -> k_0 .. k]] :
        \A x \in 1 .. (rows - 1) : RowCode(L[x - 1], ms) <= RowCode(L[x], ms)}

\* one source's kv x kk slice of Q with every entry at the smallest value
FlatSource(kv, kk) == [v \in Range(kv) |-> [y \in Range(kk) |-> 1]]

\* the value rows and the columns where a source's slice of Q may leave the
\* smallest value: everywhere for k = 2; for larger k the first non-abstain
\* row and the first and last column, which is where a vote for the last
\* column comes from
PeakRows(kv) == IF k > 2 THEN {IF kv > k THEN 1 ELSE 0} ELSE Range(kv)
PeakCols(kk) == IF k > 2 THEN {0, kk - 1} ELSE Range(kk)

\* one source's kv x kk slice of Q: at most one entry above the smallest value
SourceFactors(kv, kk) ==
    {f : f \in {[FlatSource(kv, kk) EXCEPT ![v][y] = q] :
                    v \in PeakRows(kv), y \in PeakCols(kk), q \in QVals}}

\* the factor tensors Q (m x k_lf x k) the optimizer is taken to end at:
\* at most two sources away from the flat slice
QSet(ms) ==
    {q : q \in {r \in [Range(ms) -> SourceFactors(k_lf, k)] :
        Cardinality({i \in Range(ms) : r[i] # FlatSource(k_lf, k)}) <= 2}}

\* an overlaps tensor a caller passes as O: the exact rank-k tensor of a
\* factor tensor, its entries over QDen^3
TensorOf(Qt) ==
    LET ms == Cardinality(DOMAIN Qt)
        kv == Cardinality(DOMAIN Qt[0])
    IN  [shape |-> <<ms, ms, ms, kv, kv, kv>>,
         den   |-> QDen * QDen * QDen,
         num   |-> Tensor6(ms, kv, LAMBDA i, j, l, a, b, c :
                      EinsumFactors(Qt, i, j, l, a, b, c))]

\* O with delta added at every index tuple that repeats a source
ShiftRepeated(Ot, delta) ==
    [Ot EXCEPT !.num = Tensor6(Ot.shape[1], Ot.shape[4], LAMBDA i, j, l, a, b, c :
        IF i = j \/ j = l \/ i = l
        THEN Ot.num[i][j][l][a][b][c] + delta
        ELSE Ot.num[i][j][l][a][b][c])]

\* the factor tensor with every entry at the smallest value
FlatFactors(ms) == [i \in Range(ms) |-> FlatSource(k_lf, k)]

\* the inputs of the direct get_loss calls
LossQs(ms) ==
    {q \in QSet(ms) : q[1] = q[2] /\ (q[0] = q[1] \/ q[0] = FlatFactors(ms)[0])}
LossOs(ms) ==
    {_get_overlaps_tensor(L) : L \in LabelMatrices(1, ms)}
        \cup {TensorOf(q) : q \in {q \in LossQs(ms) : q[0] = q[1]}}
        \cup {ShiftRepeated(TensorOf(q), 1) : q \in {q \in LossQs(ms) : q[0] = q[1]}}

\* ------------------------------------------------- direct calls (SpecFn)
Untrained ==
    /\ class_balance = None /\ cond_probs = None
    /\ m = 0 /\ mask = None /\ Q = None
    /\ p_y = None /\ cps = None /\ orderings = None /\ col_order = None
    /\ outcome = "none"

InitFn ==
    /\ k \in Ks
    /\ abstains \in BOOLEAN
    /\ Untrained
    /\ ret = None
    /\ \/ \E rows \in 1 .. MaxN, ms \in Ms :
            \E L \in LabelMatrices(rows, ms) :
                args = [fn |-> "_get_overlaps_tensor", L |-> L]
       \/ \E ms \in 3 .. MaxM : args = [fn |-> "get_mask", m |-> ms]
       \/ \E ms \in Ms :
            \E Ot \in LossOs(ms), Qt \in LossQs(ms) :
                args = [fn |-> "get_loss", O |-> Ot, Q |-> Qt, mask |-> get_mask(ms)]

UnchangedSelf ==
    UNCHANGED <<k, abstains, class_balance, cond_probs, m, mask, Q,
                p_y, cps, orderings, col_order, outcome>>

CallGetOverlapsTensor ==
    /\ ret = None
    /\ args.fn = "_get_overlaps_tensor"
    /\ ret' = _get_overlaps_tensor(args.L)
    /\ UNCHANGED args
    /\ UnchangedSelf

CallGetMask ==
    /\ ret = None
    /\ args.fn = "get_mask"
    /\ ret' = get_mask(args.m)
    /\ UNCHANGED args
    /\ UnchangedSelf

CallGetLoss ==
    /\ ret = None
    /\ args.fn = "get_loss"
    /\ ret' = get_loss(args.O, args.Q, args.mask)
    /\ UNCHANGED args
    /\ UnchangedSelf

NextFn == CallGetOverlapsTensor \/ CallGetMask \/ CallGetLoss

SpecFn == InitFn /\ [][NextFn]_vars

\* ---------------------------------------------------------- train_model
\* line 115: p_y = np.mean(q.sum(axis=1) ** 3, axis=0); the numerator of
\* p_y[y] over m * QDen^3
ClassBalanceCandidate(q) ==
    LET ms == Cardinality(DOMAIN q)
        kv == Cardinality(DOMAIN q[0])
    IN  Table([y \in DOMAIN q[0][0] |->
            SumTo([i \in Range(ms) |->
                     SumTo([v \in Range(kv) |-> q[i][v][y]], kv)
                       * SumTo([v \in Range(kv) |-> q[i][v][y]], kv)
                       * SumTo([v \in Range(kv) |-> q[i][v][y]], kv)], ms)])

\* line 126: cps = q @ np.diag(1 / p_y ** (1 / 3)), so that
\* cps[i, v, y] = q[i, v, y] / p_y[y] ** (1/3), kept as the pair (num, rad)
CondProbsCandidate(q, py) ==
    Table([i \in DOMAIN q |-> Table([v \in DOMAIN q[i] |-> Table([y \in DOMAIN q[i][v] |->
        [num |-> q[i][v][y], rad |-> py[y]]])])])

\* x > y for two cps entries: both are positive, so cubes decide it, and the
\* common factors QDen^3 and m * QDen^3 cancel
Greater(x, y) == x.num * x.num * x.num * y.rad > y.num * y.num * y.num * x.rad

\* np.argmax of a vector: the first index of a largest entry
ArgMax(row) ==
    CHOOSE y \in DOMAIN row :
        /\ \A z \in DOMAIN row : ~Greater(row[z], row[y])
        /\ \A z \in DOMAIN row : z < y => Greater(row[y], row[z])

\* lines 129-132: the number of leading value rows the ordering leaves out
\* (the abstain row when k_lf > k)
Skipped == IF k_lf > k THEN 1 ELSE 0

\* lines 129-136: cps_na.argmax(axis=2), one row per source: entry w is the
\* argmax over the columns of the w-th non-abstain value row of that source
Orderings(cp) ==
    Table([i \in DOMAIN cp |->
        Table([w \in Range(Cardinality(DOMAIN cp[i]) - Skipped) |->
            ArgMax(cp[i][w + Skipped])])])

\* r before r2 in the lexicographic order np.unique(axis=0) sorts rows by
LexLess(r, r2) ==
    \E w \in DOMAIN r : r[w] < r2[w] /\ \A u \in DOMAIN r : u < w => r[u] = r2[u]

\* the last row of the largest count instead of the first
MostCommonOrderingLast(rows) ==
    LET vals     == {rows[i] : i \in DOMAIN rows}
        count(r) == Cardinality({i \in DOMAIN rows : rows[i] = r})
    IN  CHOOSE r \in vals :
            \A r2 \in vals :
                count(r2) < count(r) \/ (count(r2) = count(r) /\ ~LexLess(r, r2))

\* lines 136-137: vals, counts = np.unique(rows, axis=0, return_counts=True)
\* are the distinct rows in lexicographic order with their counts, and
\* vals[counts.argmax()] is the first row of the largest count
MostCommonOrdering(rows) ==
    LET vals     == {rows[i] : i \in DOMAIN rows}
        count(r) == Cardinality({i \in DOMAIN rows : rows[i] = r})
    IN  CHOOSE r \in vals :
            \A r2 \in vals :
                count(r2) < count(r) \/ (count(r2) = count(r) /\ ~LexLess(r2, r))

\* line 138: p_y[col_order], the vector of the entries col_order names
Take(py, order) == Table([y \in DOMAIN order |-> py[order[y]]])

\* line 139: cps[col_order] indexes the first axis of cps
TakeFirstAxis(cp, order) == Table([r \in DOMAIN order |-> cp[order[r]]])

\* line 85 raising after the stored outputs were cleared
TrainModelNoInputCleared ==
    /\ outcome' = "ValueError"
    /\ class_balance' = None
    /\ cond_probs' = None
    /\ UNCHANGED <<k, abstains, m, mask, Q, p_y, cps, orderings, col_order, args, ret>>

\* lines 80-85 with L = None and O = None: raise ValueError
TrainModelNoInput ==
    /\ outcome' = "ValueError"
    /\ UNCHANGED <<k, abstains, class_balance, cond_probs, m, mask, Q,
                   p_y, cps, orderings, col_order, args, ret>>

\* line 86: O.shape[0] of the tensor train_model works on: the caller's O,
\* else the overlaps tensor of L (lines 80-83)
NumSources(L, Oin) == IF Oin # None THEN Oin.shape[1] ELSE _get_overlaps_tensor(L).shape[1]

\* line 139: cps[col_order] raises IndexError unless every entry of col_order
\* is an index of the first axis of cps
InFirstAxis(cp, order) == \A r \in DOMAIN order : order[r] \in DOMAIN cp

\* lines 80-139 with an input; Qend is what optimizer.step leaves in self.Q
TrainModelFit(L, Oin, Qend) ==
    /\ m' = NumSources(L, Oin)
    /\ mask' = get_mask(m')
    /\ Q' = Qend
    /\ p_y' = ClassBalanceCandidate(Q')
    /\ cps' = CondProbsCandidate(Q', p_y')
    /\ orderings' = Orderings(cps')
    /\ col_order' = MostCommonOrdering(orderings')
    /\ class_balance' = Take(p_y', col_order')
    /\ cond_probs' = IF InFirstAxis(cps', col_order')
                     THEN TakeFirstAxis(cps', col_order') ELSE cond_probs
    /\ outcome' = IF InFirstAxis(cps', col_order') THEN "ok" ELSE "IndexError"
    /\ UNCHANGED <<k, abstains, args, ret>>

\* the label matrices and overlaps tensors train_model is called with
TrainLs(ms) == {L \in LabelMatrices(1, ms) : \A s \in Range(ms) : L[0][s] = k}
TrainOs(ms) == {TensorOf(FlatFactors(ms))}

\* train_model(L=L): the optimizer may end at any Q of QSet
TrainModelL ==
    \E ms \in Ms : \E L \in TrainLs(ms), Qend \in QSet(ms) :
        TrainModelFit(L, None, Qend)

\* train_model(O=O) and train_model(L=L, O=O): O is used, L is not read
TrainModelO ==
    \E ms \in Ms : \E Oin \in TrainOs(ms), Qend \in QSet(ms) :
        \E L \in {None} \cup (IF Qend = FlatFactors(ms) THEN TrainLs(ms) ELSE {}) :
            TrainModelFit(L, Oin, Qend)

Init ==
    /\ k \in TrainKs
    /\ abstains \in BOOLEAN
    /\ Untrained
    /\ args = None
    /\ ret = None

Next == TrainModelL \/ TrainModelO \/ TrainModelNoInput

Spec == Init /\ [][Next]_vars

\* ------------------------------------------------- claims on train_model
\* C5: train_model with L = None and O = None raises ValueError and leaves
\* class_balance, cond_probs, m, mask and Q exactly as they were, on a fresh
\* instance and after any earlier fits.
C5_NoInputMutatesNothing ==
    [][outcome' = "ValueError" =>
          /\ class_balance' = class_balance
          /\ cond_probs' = cond_probs
          /\ m' = m
          /\ mask' = mask
          /\ Q' = Q]_vars

\* the call raised on an instance that holds the results of an earlier fit
C5_Witness ==
    /\ outcome = "ValueError"
    /\ class_balance # None /\ cond_probs # None
    /\ m = 3 /\ mask # None /\ Q # None

\* C6: after a train_model call that returns normally, class_balance has k
\* entries, each in [0,1], and they sum to 1 within 1e-4, for every Q the
\* optimizer can end at.  class_balance[y] is over m * QDen^3.
C6_ClassBalanceIsDistribution ==
    outcome = "ok" =>
        LET den == m * QDen * QDen * QDen
            sum == SumTo(class_balance, k)
        IN  /\ DOMAIN class_balance = Range(k)
            /\ \A y \in Range(k) : 0 <= class_balance[y] /\ class_balance[y] <= den
            /\ 10000 * (sum - den) <= den
            /\ 10000 * (den - sum) <= den

\* the slice x[:, y] of one source's k_lf x k matrix sums to 1 within 1e-4.
\* With S the sum of the numerators and rad the shared radicand, the sum is
\* S * cuberoot(m / rad); it is compared through its cube m * S^3 / rad, and
\* the interval [0.9997, 1.0004] contains the cubes of [0.9999, 1.0001].
SliceSumsToOne(x, y) ==
    LET kv  == Cardinality(DOMAIN x)
        S   == SumTo([v \in Range(kv) |-> x[v][y].num], kv)
        rad == x[0][y].rad
    IN  /\ 9997 * rad <= 10000 * m * S * S * S
        /\ 10000 * m * S * S * S <= 10004 * rad

\* C7: after a train_model call that returns normally, for every source i and
\* class y the slice cond_probs[i, :, y] sums to 1 within 1e-4.
C7_CondProbSlicesAreDistributions ==
    outcome = "ok" =>
        \A i \in Range(m), y \in Range(k) :
            /\ i \in DOMAIN cond_probs
            /\ SliceSumsToOne(cond_probs[i], y)

\* C8: after a train_model call that returns normally, cond_probs has shape
\* (m, k_lf, k), m the number of sources of the input.
C8_CondProbsShape ==
    outcome = "ok" =>
        /\ DOMAIN cond_probs = Range(m)
        /\ \A i \in DOMAIN cond_probs :
              /\ DOMAIN cond_probs[i] = Range(k_lf)
              /\ \A v \in DOMAIN cond_probs[i] : DOMAIN cond_probs[i][v] = Range(k)

\* C9: both outputs are the candidates with col_order applied along the class
\* axis: class_balance[y] = p_y[col_order[y]] and
\* cond_probs[i, v, y] = cps[i, v, col_order[y]] for every source i, value v
\* and class y.
C9_SameOrderOnClassAxis ==
    outcome = "ok" =>
        /\ \A y \in Range(k) : class_balance[y] = p_y[col_order[y]]
        /\ \A i \in Range(m), v \in Range(k_lf), y \in Range(k) :
              /\ i \in DOMAIN cond_probs
              /\ cond_probs[i][v][y] = cps[i][v][col_order[y]]

\* the number of sources whose row of orderings is r
VoteCount(r) == Cardinality({i \in DOMAIN orderings : orderings[i] = r})

\* rows the abstain row of every source of cps is replaced by: each entry
\* the smallest or a large multiple of it
AbstainRows ==
    {[y \in Range(k) |-> [num |-> a[y], rad |-> p_y[y]]] : a \in [Range(k) -> {1, 3}]}

\* cps with the abstain row of every source replaced by row
WithAbstainRow(row) == [i \in DOMAIN cps |-> [cps[i] EXCEPT ![0] = row]]

\* C11: col_order is a plurality vote over the non-abstain values.  Source i
\* votes the vector whose entry for the w-th non-abstain value is the (first)
\* column holding a largest entry of that row of cps[i]; col_order is a vote
\* no other vote outnumbers, and every other vote with the same count comes
\* after it lexicographically (so it is determined by cps); replacing the
\* abstain row of cps by anything leaves the result as it is.
C11_PluralityOverNonAbstains ==
    col_order # None =>
        LET skip == IF abstains THEN 1 ELSE 0
        IN  /\ DOMAIN orderings = Range(m)
            /\ \A i \in Range(m) :
                  /\ DOMAIN orderings[i] = Range(k)
                  /\ \A w \in Range(k) :
                        LET row  == cps[i][w + skip]
                            best == orderings[i][w]
                        IN  /\ \A z \in Range(k) : ~Greater(row[z], row[best])
                            /\ \A z \in Range(k) : z < best => Greater(row[best], row[z])
            /\ VoteCount(col_order) > 0
            /\ \A i \in Range(m) :
                  \/ VoteCount(orderings[i]) < VoteCount(col_order)
                  \/ /\ VoteCount(orderings[i]) = VoteCount(col_order)
                     /\ (orderings[i] = col_order \/ LexLess(col_order, orderings[i]))
            /\ abstains =>
                  \A row \in AbstainRows :
                      MostCommonOrdering(Orderings(WithAbstainRow(row))) = col_order

\* a fit with an abstain row where the three sources cast three different
\* votes, so the counts tie and the lexicographic order decides
C11_Witness ==
    /\ outcome = "ok"
    /\ abstains
    /\ Cardinality({orderings[i] : i \in DOMAIN orderings}) = 3
    /\ \A i \in DOMAIN orderings :
          orderings[i] = col_order \/ LexLess(col_order, orderings[i])

\* C12: the chosen col_order is a permutation of the k column indices
\* 0..k-1, each column appearing exactly once, so that class_balance holds
\* every entry of the candidate p_y exactly once.
C12_ColOrderIsPermutation ==
    col_order # None =>
        /\ DOMAIN col_order = Range(k)
        /\ \A y \in Range(k) :
              Cardinality({w \in DOMAIN col_order : col_order[w] = y}) = 1

\* C13: class_balance and cond_probs are updated together: in every
\* reachable state, after any sequence of train_model calls, returning or
\* raising, both are None or both are the result of the same fit (the last
\* one that stored anything).
C13_OutputsUpdatedTogether ==
    \/ class_balance = None /\ cond_probs = None
    \/ /\ class_balance # None
       /\ cond_probs # None
       /\ class_balance = Take(p_y, col_order)
       /\ InFirstAxis(cps, col_order)
       /\ cond_probs = TakeFirstAxis(cps, col_order)

\* ------------------------------------------------- claims on the direct calls
Returned(fn) == ret # None /\ args.fn = fn

\* the examples of L where sources i, j, l emit the a-th, b-th, c-th value
Cooccur(L, i, j, l, a, b, c) ==
    {x \in DOMAIN L : L[x][i] = k_0 + a /\ L[x][j] = k_0 + b /\ L[x][l] = k_0 + c}

\* C1: _get_overlaps_tensor(L)[i,j,l,a,b,c] is the number of examples x with
\* L[x,i] = k_0+a, L[x,j] = k_0+b and L[x,l] = k_0+c, divided by n; the axes
\* are (source, source, source, value, value, value), shape (m,m,m,k_lf,k_lf,k_lf).
C1_OverlapsAreCooccurrenceRates ==
    Returned("_get_overlaps_tensor") =>
        LET L  == args.L
            ms == NumCols(L)
        IN  /\ ret.shape = <<ms, ms, ms, k_lf, k_lf, k_lf>>
            /\ ret.den = NumRows(L)
            /\ ret.num = Tensor6(ms, k_lf, LAMBDA i, j, l, a, b, c :
                            Cardinality(Cooccur(L, i, j, l, a, b, c)))

\* a two-example matrix whose three sources emit three different values on
\* the first example only: the rate 1/2 sits at one (source, value) pairing
C1_Witness ==
    /\ Returned("_get_overlaps_tensor")
    /\ abstains
    /\ NumRows(args.L) = 2
    /\ args.L[0] = [s \in Range(3) |-> 0]
    /\ args.L[1] = [s \in Range(3) |-> s]
    /\ ret.num[0][1][2][0][1][2] = 1
    /\ ret.num[0][1][2][1][0][2] = 0

\* C2: every entry of _get_overlaps_tensor(L) lies in [0,1], and for every
\* source triple (i,j,l), repeated sources included, the entries over all
\* value triples (a,b,c) sum to 1; with and without abstains.
C2_OverlapsAreDistributions ==
    Returned("_get_overlaps_tensor") =>
        \A i \in DOMAIN ret.num : \A j \in DOMAIN ret.num[i] :
            \A l \in DOMAIN ret.num[i][j] :
                LET P  == ret.num[i][j][l]
                    kv == Cardinality(DOMAIN P)
                IN  /\ \A a, b, c \in Range(kv) : 0 <= P[a][b][c] /\ P[a][b][c] <= ret.den
                    /\ SumTo([a \in Range(kv) |-> SumTo([b \in Range(kv) |->
                           SumTo(P[a][b], kv)], kv)], kv) = ret.den

\* a matrix that uses the largest value k and the smallest value k_0
C2_Witness ==
    /\ Returned("_get_overlaps_tensor")
    /\ NumRows(args.L) = 2
    /\ args.L[0][0] = k_0 /\ args.L[1][0] = k /\ args.L[1][1] = k
    /\ ret.num[0][0][1][k - k_0][k - k_0][k - k_0] = 1
    /\ ret.num[0][0][0][0][0][0] = 1

\* C3: the overlaps tensor is symmetric under joint permutation of its three
\* (source, value) axis pairs: O[i,j,l,a,b,c] = O[j,i,l,b,a,c] = O[l,j,i,c,b,a]
\* and so on for all six permutations.
C3_OverlapsJointlySymmetric ==
    Returned("_get_overlaps_tensor") =>
        LET O == ret.num
        IN  \A i, j, l \in Range(ret.shape[1]) : \A a, b, c \in Range(ret.shape[4]) :
                /\ O[i][j][l][a][b][c] = O[i][l][j][a][c][b]
                /\ O[i][j][l][a][b][c] = O[j][i][l][b][a][c]
                /\ O[i][j][l][a][b][c] = O[j][l][i][b][c][a]
                /\ O[i][j][l][a][b][c] = O[l][i][j][c][a][b]
                /\ O[i][j][l][a][b][c] = O[l][j][i][c][b][a]

\* a tensor that is not symmetric in its value axes alone, so that only the
\* joint permutation holds
C3_Witness ==
    /\ Returned("_get_overlaps_tensor")
    /\ ret.num[0][1][2][0][1][1] = 1
    /\ ret.num[0][1][2][1][0][1] = 0
    /\ ret.num[1][0][2][1][0][1] = 1

\* C4: for m >= 3, get_mask(m) has shape (m,m,m,k_lf,k_lf,k_lf) and is 0 at
\* [i,j,l,a,b,c] when fewer than three of i,j,l are distinct and 1 otherwise,
\* whatever the value indices a,b,c.
C4_MaskIsDistinctSources ==
    Returned("get_mask") =>
        /\ args.m >= 3
        /\ ret.shape = <<args.m, args.m, args.m, k_lf, k_lf, k_lf>>
        /\ ret.at = Tensor6(args.m, k_lf, LAMBDA i, j, l, a, b, c :
                        IF i = j \/ j = l \/ i = l THEN 0 ELSE 1)

\* a mask for more than three sources, with a pair-repeat that is masked out
C4_Witness ==
    /\ Returned("get_mask")
    /\ args.m > 3
    /\ ret.at[0][3][0][0][1][0] = 0
    /\ ret.at[0][3][1][0][1][0] = 1

\* the squared residual at one index tuple, over (O.den * QDen^3)^2
Residual2(Ot, Qt, i, j, l, a, b, c) ==
    LET kk  == Cardinality(DOMAIN Qt[0][0])
        rec == SumTo([y \in Range(kk) |-> Qt[i][a][y] * Qt[j][b][y] * Qt[l][c][y]], kk)
        d   == Ot.num[i][j][l][a][b][c] * QDen * QDen * QDen - rec * Ot.den
    IN  d * d

\* C10: get_loss(O, Q, mask) is the sum over the tuples with i, j, l pairwise
\* distinct of (O[i,j,l,a,b,c] - sum_y Q[i,a,y] Q[j,b,y] Q[l,c,y])^2; so it
\* does not change when O changes at tuples that repeat a source, and it is 0
\* when O equals the reconstruction on every masked-in tuple.
C10_LossIsMaskedSquaredResidual ==
    Returned("get_loss") =>
        LET Ot == args.O
            Qt == args.Q
            ms == Ot.shape[1]
            kv == Ot.shape[4]
        IN  /\ ret.den = (Ot.den * QDen * QDen * QDen) * (Ot.den * QDen * QDen * QDen)
            /\ ret.num = Sum6(ms, kv, LAMBDA i, j, l, a, b, c :
                            IF i # j /\ j # l /\ i # l
                            THEN Residual2(Ot, Qt, i, j, l, a, b, c) ELSE 0)
            /\ get_loss(ShiftRepeated(Ot, 1), Qt, args.mask) = ret
            /\ (\A i, j, l \in Range(ms) : \A a, b, c \in Range(kv) :
                    (i # j /\ j # l /\ i # l) => Residual2(Ot, Qt, i, j, l, a, b, c) = 0)
                 => ret.num = 0

\* a loss of 0 for an O that differs from the reconstruction at the tuples
\* that repeat a source
C10_Witness ==
    /\ Returned("get_loss")
    /\ ret.num = 0
    /\ Residual2(args.O, args.Q, 0, 0, 1, 0, 0, 0) > 0

====
